---- MODULE Spec2Model ----
(***************************************************************************)
(* A model of six parts of the geoengine query-processing core:            *)
(*   - the no-data virtual grid and the dense grid made from it            *)
(*                     (datatypes/src/raster/no_data_grid.rs),             *)
(*   - NoDataGrid::convert_dtype (same file),                              *)
(*   - RasterVectorJoin::initialize                                        *)
(*                     (operators/src/processing/raster_vector_join),      *)
(*   - the resolution of the Sentinel-2 STAC catalog into load             *)
(*     instructions (services/src/pro/datasets/external/                   *)
(*     sentinel_s2_l2a_cogs.rs),                                           *)
(*   - the WCS handler get_coverage (services/src/handlers/wcs.rs),        *)
(*   - the rendering of a raster into an image, to_png                     *)
(*                     (datatypes/src/operations/image/to_png.rs).         *)
(* Each part has its own specification (SpecGrid, SpecConv, SpecJoin,      *)
(* SpecCatalog, SpecCatalogMalformed, SpecWcs, SpecPng); a specification   *)
(* leaves the variables of the other parts untouched.                      *)
(***************************************************************************)
EXTENDS Integers, Sequences, FiniteSets, TLC

VARIABLES
    grid,         \* the NoDataGrid2D under test: [shape, no_data_value]
    gridResult,   \* what the last grid operation returned
    dense,        \* the dense Grid made from the NoDataGrid, taken through the
                  \* same shift_by_offset / set_grid_bounds calls
    conv,         \* the NoDataGrid given to convert_dtype, with its type T
    convResult,   \* the target type To and the NoDataGrid convert_dtype returned
    op,           \* the RasterVectorJoin operator: params.names and its sources
    joinResult,   \* what RasterVectorJoin::initialize returned
    joinAgain,    \* what initializing a clone of the same graph returned afterwards
    query,        \* the RasterQueryRectangle's time_interval
    catalog,      \* what the STAC endpoint reports: context.matched, context.limit
    time_range,   \* what time_range_request returned
    cpc,          \* position of create_loading_info / load_all_features
    page,         \* the page load_all_features is about to ask for
    num_pages,    \* load_all_features' num_pages (0 until page 1 has arrived)
    requests,     \* the pages requested so far, in order
    features,     \* load_all_features' accumulated feature list
    kinds,        \* the kinds of features the catalog holds
    steps,        \* the requests sent and responses received so far
    loadingInfo,  \* what create_loading_info returned
    request,      \* the GetCoverage request
    workflow,     \* what the request meets: the workflow's descriptor, the step
                  \* that fails
    coverage,     \* what get_coverage returned, and the steps it took
    raster,       \* the Raster2D given to to_png: its dimension
    image,        \* the width and height to_png is asked for
    png           \* what to_png returned, with the cell and colour of every pixel

gridVars == <<grid, gridResult, dense>>
convVars == <<conv, convResult>>
joinVars == <<op, joinResult, joinAgain>>
catalogVars == <<query, catalog, time_range, cpc, page, num_pages, requests, features, kinds,
                 steps, loadingInfo>>
wcsVars == <<request, workflow, coverage>>
pngVars == <<raster, image, png>>
vars == <<grid, gridResult, dense, conv, convResult, op, joinResult, joinAgain, query, catalog, time_range, cpc, page, num_pages,
          requests, features, kinds, steps, loadingInfo, request, workflow, coverage,
          raster, image, png>>

----------------------------------------------------------------------------
(* Bounds of the model.                                                    *)

\* largest axis size of a freshly constructed grid shape
MaxAxisSize == 2
\* grid indices, offsets and bounding boxes stay within -1 .. MaxCoord
MaxCoord == 1

Coords == (0 - 1) .. MaxCoord
GridIdx2D == Coords \X Coords
\* the no-data values tried (42 is the one of the unit tests)
NoDataValues == {0, 42}

----------------------------------------------------------------------------
(* The no-data grid.                                                       *)

\* GridIdx + GridIdx
IdxAdd(a, b) == <<a[1] + b[1], a[2] + b[2]>>

\* GridShape2D::from([y, x]): indices 0 .. size - 1 on each axis
GridShape2D(axis_size) ==
    [min_index |-> <<0, 0>>, max_index |-> <<axis_size[1] - 1, axis_size[2] - 1>>]

min_index(shape) == shape.min_index

max_index(shape) == shape.max_index

\* GridContains::contains: min_index <= index <= max_index on every axis
contains(shape, index) ==
    \A d \in 1..2 : /\ min_index(shape)[d] <= index[d]
                    /\ index[d] <= max_index(shape)[d]

axis_size(shape) ==
    <<max_index(shape)[1] - min_index(shape)[1] + 1,
      max_index(shape)[2] - min_index(shape)[2] + 1>>

number_of_elements(shape) == axis_size(shape)[1] * axis_size(shape)[2]

\* GridBounds::shift_bounding_box
shift_bounding_box(shape, offset) ==
    [min_index |-> IdxAdd(min_index(shape), offset),
     max_index |-> IdxAdd(max_index(shape), offset)]

\* NoDataGrid::new
NoDataGridNew(shape, no_data_value) ==
    [shape |-> shape, no_data_value |-> no_data_value]

NoIdx == <<0, 0>>

\* Results of the grid operations, as one record shape:
\*   Ok(value) / Err(GridIndexOutOfBounds{index, min_index, max_index}) / a grid
GridOk(v) ==
    [tag |-> "Ok", value |-> v, index |-> NoIdx, min_index |-> NoIdx, max_index |-> NoIdx]

GridIndexOutOfBounds(index, lo, hi) ==
    [tag |-> "GridIndexOutOfBounds", value |-> 0, index |-> index,
     min_index |-> lo, max_index |-> hi]

GridNone(tag) ==
    [tag |-> tag, value |-> 0, index |-> NoIdx, min_index |-> NoIdx, max_index |-> NoIdx]

\* an unchecked read that yields the default value outside the bounds
get_at_grid_index_unchecked_inside(g, grid_index) ==
    IF contains(g.shape, grid_index) THEN g.no_data_value ELSE 0

get_at_grid_index_unchecked(g, grid_index) == g.no_data_value

\* a bounds check that swaps the range it reports
get_at_grid_index_swapped(g, grid_index) ==
    IF contains(g.shape, grid_index)
    THEN GridOk(get_at_grid_index_unchecked(g, grid_index))
    ELSE GridIndexOutOfBounds(grid_index, max_index(g.shape), min_index(g.shape))

get_at_grid_index(g, grid_index) ==
    IF contains(g.shape, grid_index)
    THEN GridOk(get_at_grid_index_unchecked(g, grid_index))
    ELSE GridIndexOutOfBounds(grid_index, min_index(g.shape), max_index(g.shape))

\* shift_by_offset keeping the bounds where they were
shift_by_offset_unshifted(g, offset) ==
    [shape |-> g.shape, no_data_value |-> g.no_data_value]

shift_by_offset(g, offset) ==
    [shape |-> shift_bounding_box(g.shape, offset), no_data_value |-> g.no_data_value]

set_grid_bounds(g, bounds) == NoDataGridNew(bounds, g.no_data_value)

\* GridBoundingBox values: min <= max on every axis (enforced by its constructor)
GridBoundingBoxes ==
    {b \in [min_index : GridIdx2D, max_index : GridIdx2D] :
        \A d \in 1..2 : b.min_index[d] <= b.max_index[d]}

\* a bounding box without cells: max < min on some axis
Degenerate(bounds) == \E d \in 1..2 : bounds.max_index[d] < bounds.min_index[d]

\* The bounding boxes of empty grids, as shift_bounding_box makes them from a
\* shape with an axis of size 0: max = min - 1 on that axis
EmptyBoundingBoxes ==
    {b \in [min_index : GridIdx2D, max_index : GridIdx2D] :
        /\ Degenerate(b)
        /\ \A d \in 1..2 : b.min_index[d] - 1 <= b.max_index[d]}

\* Option<T>
Some(v) == [some |-> TRUE, value |-> v]
None == [some |-> FALSE, value |-> 0]

\* The dense Grid: its shape, its buffer of number_of_elements values in
\* row-major order and its no-data value; Grid::new_filled fills the buffer
GridNewFilled(shape, fill_value, no_data_value) ==
    [tag |-> "Ok", shape |-> shape,
     data |-> [i \in 1..number_of_elements(shape) |-> fill_value],
     no_data_value |-> no_data_value]

\* the conversion forgetting the no-data value
GridFromWithoutNoData(g) == GridNewFilled(g.shape, g.no_data_value, None)

\* impl From<NoDataGrid<D, T>> for Grid<D, T>
GridFrom(g) == GridNewFilled(g.shape, g.no_data_value, Some(g.no_data_value))

\* a dense grid lost to the error of a set_grid_bounds
DenseErr(tag) ==
    [tag |-> tag, shape |-> GridShape2D(<<0, 0>>), data |-> <<>>,
     no_data_value |-> None]

\* GridSpaceToLinearSpace: the position of a grid index in the buffer
LinearSpaceIndex(shape, grid_index) ==
    (grid_index[1] - min_index(shape)[1]) * axis_size(shape)[2]
        + (grid_index[2] - min_index(shape)[2]) + 1

\* Grid::get_at_grid_index
DenseGetAtGridIndex(d, grid_index) ==
    IF contains(d.shape, grid_index)
    THEN GridOk(d.data[LinearSpaceIndex(d.shape, grid_index)])
    ELSE GridIndexOutOfBounds(grid_index, min_index(d.shape), max_index(d.shape))

\* Grid::shift_by_offset: the buffer is kept
DenseShiftByOffset(d, offset) ==
    IF d.tag # "Ok" THEN d
    ELSE [d EXCEPT !.shape = shift_bounding_box(d.shape, offset)]

\* Grid::set_grid_bounds: the buffer is kept, so the bounds must hold as many
\* cells as the buffer has values; degenerate bounds are rejected
DenseSetGridBounds(d, bounds) ==
    IF d.tag # "Ok" THEN d
    ELSE IF Degenerate(bounds) THEN DenseErr("InvalidGridBounds")
    ELSE IF number_of_elements(bounds) # Len(d.data)
         THEN DenseErr("DimensionCapacityDoesNotMatchDataCapacity")
    ELSE [d EXCEPT !.shape = bounds]

\* the last call on the grid: the operation, its argument and what it returned
GridCall(name, arg, ret) == [op |-> name, arg |-> arg, ret |-> ret]

InitGridPart ==
    /\ \E sy \in 0..MaxAxisSize, sx \in 0..MaxAxisSize, v \in NoDataValues :
          grid = NoDataGridNew(GridShape2D(<<sy, sx>>), v)
    /\ gridResult = GridCall("new", NoIdx, GridNone("grid"))
    /\ dense = GridFrom(grid)

GetAtGridIndex ==
    \E idx \in GridIdx2D :
        /\ gridResult' = GridCall("get_at_grid_index", idx, get_at_grid_index(grid, idx))
        /\ UNCHANGED <<grid, dense>>

GetAtGridIndexUnchecked ==
    \E idx \in GridIdx2D :
        /\ gridResult' = GridCall("get_at_grid_index_unchecked", idx,
                                   GridOk(get_at_grid_index_unchecked(grid, idx)))
        /\ UNCHANGED <<grid, dense>>

ShiftByOffset ==
    \E offset \in GridIdx2D :
        /\ \A d \in 1..2 : /\ min_index(grid.shape)[d] + offset[d] \in Coords
                           /\ max_index(grid.shape)[d] + offset[d] \in Coords
        /\ grid' = shift_by_offset(grid, offset)
        /\ gridResult' = GridCall("shift_by_offset", offset, GridNone("grid"))
        /\ dense' = DenseShiftByOffset(dense, offset)

\* set_grid_bounds returns Ok(grid) for every bounding box it is given
SetGridBounds ==
    \E bounds \in GridBoundingBoxes \cup EmptyBoundingBoxes :
        /\ grid' = set_grid_bounds(grid, bounds)
        /\ gridResult' = GridCall("set_grid_bounds", bounds, GridNone("grid"))
        /\ dense' = DenseSetGridBounds(dense, bounds)

\* Grid::from(no_data_grid): the dense grid is made anew from the NoDataGrid
IntoGrid ==
    /\ dense' = GridFrom(grid)
    /\ gridResult' = GridCall("into", NoIdx, GridNone("dense"))
    /\ UNCHANGED grid

----------------------------------------------------------------------------
(* NoDataGrid::convert_dtype.                                              *)

\* the primitive types T and To tried; f64 holds every value below exactly
IntTypes == {"u8", "i8", "u16", "i16"}
NumTypes == IntTypes \cup {"f64"}

Bits(T) == IF T \in {"u8", "i8"} THEN 8 ELSE 16
Signed(T) == T \in {"i8", "i16"}
MinValue(T) == IF Signed(T) THEN 0 - 2^(Bits(T) - 1) ELSE 0
MaxValue(T) == IF Signed(T) THEN 2^(Bits(T) - 1) - 1 ELSE 2^Bits(T) - 1

\* the values tried: the limits of the integer types, their neighbours, the 42
\* of the unit test, and whole numbers only an f64 holds
ConvValues ==
    {0 - 100000, 0 - 32768, 0 - 129, 0 - 128, 0 - 1, 0, 42, 127, 128, 255, 256,
     300, 32767, 32768, 65535, 100000}

ValuesOf(T) ==
    IF T = "f64" THEN ConvValues
    ELSE {v \in ConvValues : MinValue(T) <= v /\ v <= MaxValue(T)}

\* a cast that clamps integers to the target's range
as_saturating(v, T, To) ==
    IF To = "f64" THEN v
    ELSE IF v < MinValue(To) THEN MinValue(To)
    ELSE IF v > MaxValue(To) THEN MaxValue(To)
    ELSE v

\* AsPrimitive::as_, Rust's `as`: to f64 exact; from f64 to an integer type
\* saturating; between integer types truncating to the target's width
as_(v, T, To) ==
    IF To = "f64" THEN v
    ELSE IF T = "f64"
    THEN IF v < MinValue(To) THEN MinValue(To)
         ELSE IF v > MaxValue(To) THEN MaxValue(To)
         ELSE v
    ELSE LET m == v % (2^Bits(To)) IN
         IF Signed(To) /\ m >= 2^(Bits(To) - 1) THEN m - 2^Bits(To) ELSE m

convert_dtype(g, T, To) == NoDataGridNew(g.shape, as_(g.no_data_value, T, To))

NotConverted == [to |-> "none", grid |-> NoDataGridNew(GridShape2D(<<0, 0>>), 0)]

InitConvPart ==
    /\ \E sy \in 0..MaxAxisSize, sx \in 0..MaxAxisSize, T \in NumTypes :
          \E v \in ValuesOf(T) :
              conv = [grid |-> NoDataGridNew(GridShape2D(<<sy, sx>>), v), dtype |-> T]
    /\ convResult = NotConverted

ConvertDtype ==
    \E To \in NumTypes :
        /\ convResult' = [to |-> To, grid |-> convert_dtype(conv.grid, conv.dtype, To)]
        /\ UNCHANGED conv

----------------------------------------------------------------------------
(* RasterVectorJoin::initialize.                                           *)

\* most vector / raster sources and names an operator is built with
MaxVectorSources == 2
MaxRasterSources == 9
MaxNames == 10
\* at most this many raster sources fail to initialize
MaxFailingRasterSources == 2

MAX_NUMBER_OF_RASTER_INPUTS == 8

\* VectorDataType
GeometryTypes == {"MultiPoint", "MultiLineString", "MultiPolygon"}
VectorDataType == {"Data"} \cup GeometryTypes

\* A source operator is modelled by what its own initialize(context) yields:
\* a vector source yields a result descriptor with one of the data types or an
\* error, a raster source initializes or yields an error.
VectorSource(i, outcome) == [id |-> <<"vector", i>>, init |-> outcome]
RasterSource(i, outcome) == [id |-> <<"raster", i>>, init |-> outcome]

NoChild == <<"none", 0>>

\* Result<Box<InitializedVectorOperator>>, with the order in which the children
\* were initialized
JoinResult(tag, expected, found, descriptor, child, initialized) ==
    [tag |-> tag, expected |-> expected, found |-> found,
     result_descriptor |-> descriptor, child |-> child, initialized |-> initialized]

\* Rust's half-open range a..b
Range(a, b) == [start |-> a, end |-> b]
NoRange == Range(0, 0)

\* the vector arity test accepting any non-empty list
VectorArityOkAtLeastOne(o) == Len(o.vector_sources) >= 1

VectorArityOk(o) == Len(o.vector_sources) = 1

\* the raster arity test with the upper limit only
RasterArityOkUpperOnly(o) == Len(o.raster_sources) <= MAX_NUMBER_OF_RASTER_INPUTS

RasterArityOk(o) ==
    \/ ~(Len(o.raster_sources) = 0)
    \/ Len(o.raster_sources) > MAX_NUMBER_OF_RASTER_INPUTS

\* the names test accepting surplus names
NamesOkAtLeast(o) == Len(o.raster_sources) <= Len(o.params.names)

NamesOk(o) == Len(o.raster_sources) = Len(o.params.names)

\* the type test rejecting a geometry type instead of Data
TypeOkNotMultiPoint(data_type) == data_type # "MultiPoint"

TypeOk(data_type) == data_type # "Data"

\* a join that reports the descriptor of a point collection whatever its source
result_descriptor_of_points(vector_source) == "MultiPoint"

\* vector_source.result_descriptor(): that of the initialized vector source
result_descriptor(vector_source) == vector_source.init

\* an iteration that initializes every raster source and then reports the
\* first error
InitRasterSourcesAll(sources, i, done) ==
    LET failing == {k \in i..Len(sources) : sources[k].init = "Error"} IN
    [error |-> IF failing = {} THEN NoChild
               ELSE sources[CHOOSE k \in failing : \A l \in failing : k <= l].id,
     initialized |-> done \o [k \in 1..(Len(sources) - i + 1) |-> sources[i + k - 1].id]]

\* raster_sources.into_iter().map(initialize).collect::<Result<Vec<_>>>():
\* sources are initialized in order, the first error ends the iteration
RECURSIVE InitRasterSources(_, _, _)
InitRasterSources(sources, i, done) ==
    IF i > Len(sources) THEN [error |-> NoChild, initialized |-> done]
    ELSE IF sources[i].init = "Error"
         THEN [error |-> sources[i].id, initialized |-> Append(done, sources[i].id)]
         ELSE InitRasterSources(sources, i + 1, Append(done, sources[i].id))

\* an initialize that initializes the vector source before it compares the
\* number of names with the number of raster sources
initialize_vector_first(o) ==
    IF ~VectorArityOk(o)
    THEN JoinResult("InvalidNumberOfVectorInputs", Range(1, 2),
                    Len(o.vector_sources), "none", NoChild, <<>>)
    ELSE IF ~RasterArityOk(o)
    THEN JoinResult("InvalidNumberOfRasterInputs",
                    Range(1, MAX_NUMBER_OF_RASTER_INPUTS),
                    Len(o.raster_sources), "none", NoChild, <<>>)
    ELSE LET vector_source == o.vector_sources[1] IN
         IF vector_source.init = "Error"
         THEN JoinResult("ChildError", NoRange, 0, "none", vector_source.id,
                         <<vector_source.id>>)
         ELSE IF ~NamesOk(o)
         THEN JoinResult("InvalidOperatorSpec", NoRange, 0, "none", NoChild,
                         <<vector_source.id>>)
         ELSE IF ~TypeOk(vector_source.init)
         THEN JoinResult("InvalidType", NoRange, 0, "none", NoChild,
                         <<vector_source.id>>)
         ELSE LET rs == InitRasterSources(o.raster_sources, 1, <<vector_source.id>>) IN
              IF rs.error # NoChild
              THEN JoinResult("ChildError", NoRange, 0, "none", rs.error, rs.initialized)
              ELSE JoinResult("Ok", NoRange, 0, result_descriptor(vector_source),
                              NoChild, rs.initialized)

initialize(o) ==
    IF ~VectorArityOk(o)
    THEN JoinResult("InvalidNumberOfVectorInputs", Range(1, 2),
                    Len(o.vector_sources), "none", NoChild, <<>>)
    ELSE IF ~RasterArityOk(o)
    THEN JoinResult("InvalidNumberOfRasterInputs",
                    Range(1, MAX_NUMBER_OF_RASTER_INPUTS),
                    Len(o.raster_sources), "none", NoChild, <<>>)
    ELSE IF ~NamesOk(o)
    THEN JoinResult("InvalidOperatorSpec", NoRange, 0, "none", NoChild, <<>>)
    ELSE LET vector_source == o.vector_sources[1] IN
         IF vector_source.init = "Error"
         THEN JoinResult("ChildError", NoRange, 0, "none", vector_source.id,
                         <<vector_source.id>>)
         ELSE IF ~TypeOk(vector_source.init)
         THEN JoinResult("InvalidType", NoRange, 0, "none", NoChild,
                         <<vector_source.id>>)
         ELSE LET rs == InitRasterSources(o.raster_sources, 1, <<vector_source.id>>) IN
              IF rs.error # NoChild
              THEN JoinResult("ChildError", NoRange, 0, "none", rs.error, rs.initialized)
              ELSE JoinResult("Ok", NoRange, 0, result_descriptor(vector_source), NoChild,
                              rs.initialized)

NotInitialized == JoinResult("none", NoRange, 0, "none", NoChild, <<>>)

\* the sets of positions at which raster sources fail
FailingSets(n) == {F \in SUBSET (1..n) : Cardinality(F) <= MaxFailingRasterSources}

\* RasterVectorJoin { params, raster_sources, vector_sources }: nn names, vector
\* sources with the outcomes vo, nr raster sources of which those in F fail
Operator(nn, vo, nr, F) ==
    [params |-> [names |-> [k \in 1..nn |-> k]],
     vector_sources |-> [i \in 1..Len(vo) |-> VectorSource(i, vo[i])],
     raster_sources |->
         [i \in 1..nr |-> RasterSource(i, IF i \in F THEN "Error" ELSE "Ok")]]

InitJoinPart ==
    /\ \E nv \in 0..MaxVectorSources, nr \in 0..MaxRasterSources, nn \in 0..MaxNames :
          \E vo \in [1..nv -> VectorDataType \cup {"Error"}], F \in FailingSets(nr) :
              op = Operator(nn, vo, nr, F)
    /\ joinResult = NotInitialized
    /\ joinAgain = NotInitialized

\* initialize consumes the operator it is called on (and takes the vector
\* source out of it); `op` is the graph the caller keeps and clones
Initialize ==
    /\ joinResult = NotInitialized
    /\ joinResult' = initialize(op)
    /\ UNCHANGED <<op, joinAgain>>

\* a clone of the same graph is initialized against the same context
InitializeAgain ==
    /\ joinResult # NotInitialized
    /\ joinAgain = NotInitialized
    /\ joinAgain' = initialize(op)
    /\ UNCHANGED <<op, joinResult>>

----------------------------------------------------------------------------
(* Sentinel-2 catalog resolution: load_all_features, create_loading_info.  *)

\* the catalog reports at most this many matching assets
MaxAssets == 3
\* the catalog reports a page size of 1 .. MaxLimit
MaxLimit == 2
\* acquisition timestamps and query times are 0 .. MaxTime
MaxTime == 2

\* the TimeInstances -MaxDateTime .. MaxDateTime have a UTC date-time
MaxDateTime == 200

\* Duration::seconds(1), in the model's time unit of half a second
OneSecond == 2
\* Duration::minutes(1)
OneMinute == 120

Times == 0..MaxTime

\* the zones of load_metadata; the dataset under test is UTM32N:B01
UTM32N == 32632
UTM36S == 32736
zone == [name |-> "UTM32N", epsg |-> UTM32N]
\* proj_epsg: None
NoEpsg == 0

\* What a catalog feature holds for this dataset: its proj_epsg and the entry of
\* its assets map for the band ("ok", "missing": no entry, "no_proj_shape": an
\* entry whose proj_shape is None).
\* A catalog of both zones, with features that lack proj_epsg or the band:
AssetKinds ==
    {<<UTM32N, "ok">>, <<UTM32N, "missing">>, <<UTM36S, "ok">>, <<NoEpsg, "ok">>}
\* A catalog of the zone alone, all with the band:
LiveAssetKinds == {<<UTM32N, "ok">>}
\* A catalog of the zone alone, with malformed entries for the band:
MalformedAssetKinds ==
    {<<UTM32N, "ok">>, <<UTM32N, "missing">>, <<UTM32N, "no_proj_shape">>}

StacFeature(id, datetime, kind) ==
    [id |-> id, datetime |-> datetime, proj_epsg |-> kind[1], band |-> kind[2]]

\* TimeInterval, and TimeInterval::new, which rejects start > end
TimeInterval(start, end) == [start |-> start, end |-> end]

TimeIntervalNew(start, end) ==
    IF start <= end THEN [ok |-> TRUE, value |-> TimeInterval(start, end)]
    ELSE [ok |-> FALSE, value |-> TimeInterval(0, 0)]

\* an intersection test that takes the intervals as closed
intersects_closed(a, b) == a.start <= b.end /\ b.start <= a.end

\* TimeInterval::intersects on half-open intervals [start, end), an instant
\* [t, t] standing for the point t
intersects(a, b) ==
    \/ a = b
    \/ (a.start <= b.start /\ b.start < a.end)
    \/ (b.start <= a.start /\ a.start < b.end)

\* the query's time_interval: start <= end, an instant when they are equal
Queries == {q \in [start : Times, end : Times] : q.start <= q.end}

\* TimeInstances beyond the range of UTC date-times, on either side
InstantsWithoutDateTime == {0 - MaxDateTime - 1, MaxDateTime + 1}

\* time intervals with a start or an end that has no UTC date-time
QueriesWithoutDateTime ==
    {q \in [start : Times \cup InstantsWithoutDateTime,
            end : Times \cup InstantsWithoutDateTime] :
        /\ q.start <= q.end
        /\ q.start \in InstantsWithoutDateTime \/ q.end \in InstantsWithoutDateTime}

\* TimeInstance::as_utc_date_time
as_utc_date_time(t) ==
    IF 0 - MaxDateTime <= t /\ t <= MaxDateTime THEN Some(t) ELSE None

\* Result<(DateTime<Utc>, DateTime<Utc>)>, or NoDateTimeValid { time_instance }
TimeRange(tag, t_start, t_end, time_instance) ==
    [tag |-> tag, t_start |-> t_start, t_end |-> t_end, time_instance |-> time_instance]

\* the request range without the shift of the start
time_range_request_unshifted(time) ==
    IF ~as_utc_date_time(time.start).some
    THEN TimeRange("NoDateTimeValid", 0, 0, time.start)
    ELSE IF ~as_utc_date_time(time.end).some
    THEN TimeRange("NoDateTimeValid", 0, 0, time.end)
    ELSE TimeRange("Ok", as_utc_date_time(time.start).value,
                   as_utc_date_time(time.end).value, 0)

time_range_request(time) ==
    IF ~as_utc_date_time(time.start).some
    THEN TimeRange("NoDateTimeValid", 0, 0, time.start)
    ELSE LET t_start == as_utc_date_time(time.start).value - OneMinute IN
         IF ~as_utc_date_time(time.end).some
         THEN TimeRange("NoDateTimeValid", 0, 0, time.end)
         ELSE TimeRange("Ok", t_start, as_utc_date_time(time.end).value, 0)

NoTimeRange == TimeRange("none", 0, 0, 0)

\* Result<GdalLoadingInfo>: the parts, or the error
LoadingInfo(tag, parts) == [tag |-> tag, parts |-> parts]

GdalLoadingInfoPart(time_interval, feature) ==
    [time |-> time_interval, href |-> feature.id]

\* the zone filter letting every feature with a proj_epsg through
InZoneAnyEpsg(f) == f.proj_epsg # NoEpsg

\* f.properties.proj_epsg.map_or(false, |epsg| epsg == self.zone.epsg)
InZone(f) == f.proj_epsg # NoEpsg /\ f.proj_epsg = zone.epsg

\* Vec::sort_by_key omitted: the features stay in delivery order
SortNot(fs) == fs

\* an insertion that puts a feature before those of its own timestamp
RECURSIVE InsertBeforeEquals(_, _)
InsertBeforeEquals(sorted, f) ==
    IF sorted = <<>> THEN <<f>>
    ELSE IF sorted[Len(sorted)].datetime < f.datetime THEN Append(sorted, f)
    ELSE Append(InsertBeforeEquals(SubSeq(sorted, 1, Len(sorted) - 1), f),
                sorted[Len(sorted)])

\* Vec::sort_by_key(|a| a.properties.datetime): a stable sort
RECURSIVE InsertByDatetime(_, _)
InsertByDatetime(sorted, f) ==
    IF sorted = <<>> THEN <<f>>
    ELSE IF sorted[Len(sorted)].datetime <= f.datetime THEN Append(sorted, f)
    ELSE Append(InsertByDatetime(SubSeq(sorted, 1, Len(sorted) - 1), f),
                sorted[Len(sorted)])

RECURSIVE SortFrom(_, _, _)
SortFrom(fs, i, sorted) ==
    IF i > Len(fs) THEN sorted
    ELSE SortFrom(fs, i + 1, InsertByDatetime(sorted, fs[i]))

sort_by_key(fs) == SortFrom(fs, 1, <<>>)

\* the end of validity taken two features ahead
ValidityEndSkipping(fs, i) ==
    IF i + 1 < Len(fs) THEN fs[i + 2].datetime
    ELSE fs[i].datetime + OneSecond

\* "feature is valid until next feature starts" (i counts from 1 here)
ValidityEnd(fs, i) ==
    IF i < Len(fs) THEN fs[i + 1].datetime
    ELSE fs[i].datetime + OneSecond

\* a loop that looks the band up before it tests the time interval
RECURSIVE PartsFromBandFirst(_, _, _, _)
PartsFromBandFirst(fs, i, q, parts) ==
    IF i > Len(fs) THEN LoadingInfo("Ok", parts)
    ELSE LET time_interval == TimeIntervalNew(fs[i].datetime, ValidityEnd(fs, i)) IN
         IF ~time_interval.ok THEN LoadingInfo("TimeIntervalEndBeforeStart", <<>>)
         ELSE IF fs[i].band = "missing" THEN LoadingInfo("StacNoSuchBand", <<>>)
         ELSE IF ~intersects(time_interval.value, q)
              THEN PartsFromBandFirst(fs, i + 1, q, parts)
         ELSE IF fs[i].band = "no_proj_shape" THEN LoadingInfo("StacInvalidBbox", <<>>)
         ELSE PartsFromBandFirst(fs, i + 1, q,
                        Append(parts, GdalLoadingInfoPart(time_interval.value, fs[i])))

\* the body of the loop over the sorted features
RECURSIVE PartsFrom(_, _, _, _)
PartsFrom(fs, i, q, parts) ==
    IF i > Len(fs) THEN LoadingInfo("Ok", parts)
    ELSE LET time_interval == TimeIntervalNew(fs[i].datetime, ValidityEnd(fs, i)) IN
         IF ~time_interval.ok THEN LoadingInfo("TimeIntervalEndBeforeStart", <<>>)
         ELSE IF ~intersects(time_interval.value, q)
              THEN PartsFrom(fs, i + 1, q, parts)
         ELSE IF fs[i].band = "missing" THEN LoadingInfo("StacNoSuchBand", <<>>)
         ELSE IF fs[i].band = "no_proj_shape" THEN LoadingInfo("StacInvalidBbox", <<>>)
         ELSE PartsFrom(fs, i + 1, q,
                        Append(parts, GdalLoadingInfoPart(time_interval.value, fs[i])))

\* create_loading_info once load_all_features has returned `all`
LoadingInfoOf(all, q) ==
    PartsFrom(sort_by_key(SelectSeq(all, InZone)), 1, q, <<>>)

\* (matched as f64 / limit as f64).ceil() as u32
NumPagesFloor(context) == context.matched \div context.limit

NumPages(context) == (context.matched + context.limit - 1) \div context.limit

\* the number of features the catalog puts on a page
PageSize(p) ==
    LET rest == catalog.matched - (p - 1) * catalog.limit IN
    IF rest <= 0 THEN 0 ELSE IF rest < catalog.limit THEN rest ELSE catalog.limit

\* the feature lists a page can hold; the catalog numbers its matching features
\* 1 .. matched, those of a page from `first`
Pages(first, size) ==
    {[i \in 1..size |-> StacFeature(first + i - 1, t[i], k[i])] :
        t \in [1..size -> Times], k \in [1..size -> kinds]}

NoLoadingInfo == LoadingInfo("none", <<>>)

InitCatalogPart(catalogKinds) ==
    /\ kinds = catalogKinds
    /\ steps = 0
    /\ query \in Queries \cup QueriesWithoutDateTime
    /\ catalog \in [matched : 0..MaxAssets, limit : 1..MaxLimit]
    /\ time_range = NoTimeRange
    /\ cpc = "params"
    /\ page = 1
    /\ num_pages = 0
    /\ requests = <<>>
    /\ features = <<>>
    /\ loadingInfo = NoLoadingInfo

\* request_params: the time range, then the projector and the reprojected
\* bounding box, either of which can fail
RequestParams ==
    /\ cpc = "params"
    /\ time_range' = time_range_request(query)
    /\ IF time_range'.tag # "Ok"
       THEN /\ cpc' = "failed"
            /\ loadingInfo' = LoadingInfo(time_range'.tag, <<>>)
       ELSE \/ /\ cpc' = "request"
               /\ UNCHANGED loadingInfo
            \/ /\ cpc' = "failed"
               /\ loadingInfo' = LoadingInfo("Reprojection", <<>>)
    /\ UNCHANGED <<query, catalog, page, num_pages, requests, features, kinds, steps>>

\* load_collection(params, page): the GET request leaves
Request ==
    /\ cpc = "request"
    /\ requests' = Append(requests, page)
    /\ cpc' = "await"
    /\ steps' = steps + 1
    /\ UNCHANGED <<query, catalog, time_range, page, num_pages, features, kinds,
                   loadingInfo>>

\* a load_all_features that takes the number of pages from every page
RespondRecounting ==
    /\ cpc = "await"
    /\ \E fs \in Pages((page - 1) * catalog.limit + 1, PageSize(page)) :
          LET all == features \o fs
              n == NumPages(catalog)
          IN /\ features' = all
             /\ num_pages' = n
             /\ IF page + 1 <= n
                THEN /\ page' = page + 1
                     /\ cpc' = "request"
                     /\ UNCHANGED loadingInfo
                ELSE /\ cpc' = "done"
                     /\ loadingInfo' = LoadingInfoOf(all, query)
                     /\ UNCHANGED page
    /\ steps' = steps + 1
    /\ UNCHANGED <<query, catalog, time_range, requests, kinds>>

\* load_collection returns a page; after the last page create_loading_info
\* runs to its end
Respond ==
    /\ cpc = "await"
    /\ \E fs \in Pages((page - 1) * catalog.limit + 1, PageSize(page)) :
          LET all == features \o fs
              n == IF page = 1 THEN NumPages(catalog) ELSE num_pages
          IN /\ features' = all
             /\ num_pages' = n
             /\ IF page + 1 <= n
                THEN /\ page' = page + 1
                     /\ cpc' = "request"
                     /\ UNCHANGED loadingInfo
                ELSE /\ cpc' = "done"
                     /\ loadingInfo' = LoadingInfoOf(all, query)
                     /\ UNCHANGED page
    /\ steps' = steps + 1
    /\ UNCHANGED <<query, catalog, time_range, requests, kinds>>

\* a load_collection that asks for a failed page once more
RespondErrorRetried ==
    /\ cpc = "await"
    /\ cpc' = "request"
    /\ steps' = steps + 1
    /\ UNCHANGED <<query, catalog, time_range, page, num_pages, requests, features,
                   kinds, loadingInfo>>

\* load_collection fails (the request, or the JSON of the response): the error
\* passes through load_all_features and create_loading_info
RespondError ==
    /\ cpc = "await"
    /\ \E e \in {"Reqwest", "StacJsonResponse"} :
          loadingInfo' = LoadingInfo(e, <<>>)
    /\ cpc' = "failed"
    /\ steps' = steps + 1
    /\ UNCHANGED <<query, catalog, time_range, page, num_pages, requests, features,
                   kinds>>

----------------------------------------------------------------------------
(* The WCS handler get_coverage.                                           *)

SpatialReferences == {"EPSG:4326", "EPSG:32632"}
\* Option<SpatialReference>
NoSpatialReference == [some |-> FALSE, value |-> "none"]
\* Option<GridOrigin>, by the coordinate it has in gridbasecrs
NoGridOrigin == [some |-> FALSE, value |-> <<0, 0>>]

\* the variants of TypedRasterQueryProcessor, and those get_coverage encodes
RasterDataTypes == {"U8", "U16", "U32", "U64", "I8", "I16", "I32", "I64", "F32", "F64"}
\* a match with an arm for I8 as well
GeoTiffTypesWithI8 == {"U8", "I8", "U16", "U32", "I16", "I32", "F32", "F64"}
\* the arms of `match processor`
GeoTiffTypes == {"U8", "U16", "U32", "I16", "I32", "F32", "F64"}

\* the fallible steps of get_coverage besides its own checks; the environment
\* lets at most the first of them that is reached fail
WcsSteps ==
    {"spatial_partition", "load", "get_raster", "execution_context", "initialize",
     "initialize_reprojection", "query_processor", "spatial_resolution",
     "query_context", "config", "geotiff", "http"}

\* GetCoverage: version, gridbasecrs, gridorigin, boundingbox (its upper left
\* corner as request_partition.upper_left(), its spatial_reference)
GetCoverage(version, gridbasecrs, gridorigin, bbox_spatial_reference) ==
    [version |-> version, gridbasecrs |-> gridbasecrs, gridorigin |-> gridorigin,
     upper_left |-> <<0, 10>>,
     boundingbox |-> [spatial_reference |-> bbox_spatial_reference]]

\* the values of the configuration's Wcs.tile_limit
TileLimits == {1, 4}

\* raster_stream_to_geotiff_bytes has not been called
NotEncoded == [data_type |-> "none", tile_limit |-> None]

\* Result<Box<dyn Reply>>, with the steps taken on the workflow and its
\* operators in order, and the operator the query processor was taken from
Coverage(tag, effects, initialized) ==
    [tag |-> tag, effects |-> effects, initialized |-> initialized,
     encoded |-> NotEncoded]

\* raster_stream_to_geotiff_bytes(p, .., Some(tile_limit)) has been called
Encoded(cov, data_type, tile_limit) ==
    [cov EXCEPT !.encoded = [data_type |-> data_type, tile_limit |-> Some(tile_limit)]]

NoOperator == [operator |-> "none", target_spatial_reference |-> "none"]
WorkflowOperator == [operator |-> "workflow", target_spatial_reference |-> "none"]
Reprojection(target_spatial_reference) ==
    [operator |-> "Reprojection", target_spatial_reference |-> target_spatial_reference]

VersionOk(req) == req.version = "1.1.1" \/ req.version = "1.1.0"

GridOriginOk(req) ==
    req.gridorigin.some => req.gridorigin.value = req.upper_left

\* the CRS check demanding that the bounding box carries a CRS
BoundingboxCrsRequired(req) ==
    /\ req.boundingbox.spatial_reference.some
    /\ req.gridbasecrs = req.boundingbox.spatial_reference.value

BoundingboxCrsOk(req) ==
    req.boundingbox.spatial_reference.some
        => req.gridbasecrs = req.boundingbox.spatial_reference.value

\* the test that never sees a difference
SameSpatialReferenceAlways(request_spatial_ref, workflow_spatial_ref) == TRUE

\* request_spatial_ref == workflow_spatial_ref
SameSpatialReference(request_spatial_ref, workflow_spatial_ref) ==
    request_spatial_ref = workflow_spatial_ref

\* get_coverage from "perform reprojection if necessary" on
EncodeCoverage(req, wf, effects) ==
    LET request_spatial_ref == req.gridbasecrs
        same == SameSpatialReference(request_spatial_ref, wf.spatial_reference.value)
        initialized == IF same THEN WorkflowOperator
                       ELSE Reprojection(request_spatial_ref)
        effects2 == IF same THEN effects ELSE Append(effects, "initialize_reprojection")
        effects3 == Append(effects2, "query_processor")
    IN IF ~same /\ wf.fail_at = "initialize_reprojection"
       THEN Coverage("Operator", effects2, NoOperator)
       ELSE IF wf.fail_at = "query_processor"
       THEN Coverage("Operator", effects3, initialized)
       ELSE IF wf.fail_at = "spatial_resolution"
       THEN Coverage("SpatialResolution", effects3, initialized)
       ELSE IF wf.fail_at = "query_context"
       THEN Coverage("QueryContext", effects3, initialized)
       ELSE IF wf.data_type \notin GeoTiffTypes
       THEN Coverage("RasterDataTypeNotSupportByGdal", effects3, initialized)
       ELSE IF wf.fail_at = "config"
       THEN Coverage("Config", effects3, initialized)
       ELSE IF wf.fail_at = "geotiff"
       THEN Encoded(Coverage("GeoTiff", Append(effects3, "geotiff"), initialized),
                    wf.data_type, wf.tile_limit)
       ELSE IF wf.fail_at = "http"
       THEN Encoded(Coverage("Http", Append(effects3, "geotiff"), initialized),
                    wf.data_type, wf.tile_limit)
       ELSE Encoded(Coverage("Ok", Append(effects3, "geotiff"), initialized),
                    wf.data_type, wf.tile_limit)

get_coverage(req, wf) ==
    IF ~VersionOk(req)
    THEN Coverage("WcsVersionNotSupported", <<>>, NoOperator)
    ELSE IF wf.fail_at = "spatial_partition"
    THEN Coverage("SpatialPartition", <<>>, NoOperator)
    ELSE IF ~GridOriginOk(req)
    THEN Coverage("WcsGridOriginMustEqualBoundingboxUpperLeft", <<>>, NoOperator)
    ELSE IF ~BoundingboxCrsOk(req)
    THEN Coverage("WcsBoundingboxCrsMustEqualGridBaseCrs", <<>>, NoOperator)
    ELSE IF wf.fail_at = "load"
    THEN Coverage("WorkflowLoad", <<"load">>, NoOperator)
    ELSE IF wf.fail_at = "get_raster"
    THEN Coverage("Operator", <<"load">>, NoOperator)
    ELSE IF wf.fail_at = "execution_context"
    THEN Coverage("ExecutionContext", <<"load">>, NoOperator)
    ELSE IF wf.fail_at = "initialize"
    THEN Coverage("Operator", <<"load", "initialize">>, NoOperator)
    ELSE IF ~wf.spatial_reference.some
    THEN Coverage("InvalidSpatialReference", <<"load", "initialize">>, NoOperator)
    ELSE EncodeCoverage(req, wf, <<"load", "initialize">>)

NoCoverage == Coverage("none", <<>>, NoOperator)

InitWcsPart ==
    /\ \E version \in {"1.1.1", "1.1.0", "2.0.1"}, gridbasecrs \in SpatialReferences,
          gridorigin \in {NoGridOrigin, Some(<<0, 10>>), Some(<<10, 0>>)},
          bbox_spatial_reference \in
              {NoSpatialReference} \cup {Some(c) : c \in SpatialReferences} :
          request = GetCoverage(version, gridbasecrs, gridorigin, bbox_spatial_reference)
    /\ workflow \in
          [spatial_reference :
               {NoSpatialReference} \cup {Some(c) : c \in SpatialReferences},
           data_type : RasterDataTypes,
           tile_limit : TileLimits,
           fail_at : WcsSteps \cup {"none"}]
    /\ coverage = NoCoverage

GetCoverageRequest ==
    /\ coverage = NoCoverage
    /\ coverage' = get_coverage(request, workflow)
    /\ UNCHANGED <<request, workflow>>

\* the catalog's index changes while load_all_features is between two pages:
\* the next page reports another context.matched
CatalogChanges ==
    /\ cpc = "request"
    /\ page > 1
    /\ \E matched \in 0..MaxAssets :
          /\ matched # catalog.matched
          /\ catalog' = [catalog EXCEPT !.matched = matched]
    /\ UNCHANGED <<query, time_range, cpc, page, num_pages, requests, features, kinds,
                   steps, loadingInfo>>

----------------------------------------------------------------------------
(* to_png: the rendering of a Raster2D into an image.                      *)
(*                                                                         *)
(* The f64 values of image_pixel_to_raster_pixel are carried as the        *)
(* rational num / den they approximate.  scale = dimension / width is the  *)
(* double nearest to that quotient; its rounding error is computed from    *)
(* the 53-bit significand (ScaleError).  (x + 0.5) is exact, the product   *)
(* (x + 0.5) * scale is rounded once more, and the subtraction of 0.5 and  *)
(* round() are exact.  The error of the product (below 2^-45 here) decides *)
(* the rounded cell only where the rational product is an integer, that    *)
(* is where the pixel centre lies on the boundary of two cells: elsewhere  *)
(* the product is at least 1 / (2 * width) away from such a boundary.  So  *)
(* the error is followed exactly at the boundaries (ProductBelow) and not  *)
(* elsewhere.                                                              *)

\* largest raster dimension per axis
MaxDimension == 2
\* largest image width
MaxWidth == 49
\* largest image height
MaxHeight == 1
\* bits of an f64 significand after the leading one
MantissaBits == 52

RECURSIVE FloorLog2(_, _)
\* the exponent of the double a / b: floor(log2(a / b)), for a, b > 0
FloorLog2(a, b) ==
    IF a >= 2 * b THEN FloorLog2(a, 2 * b) + 1
    ELSE IF a < b THEN FloorLog2(2 * a, b) - 1
    ELSE 0

RECURSIVE Pow2Mod(_, _)
\* 2^s modulo m
Pow2Mod(s, m) == IF s = 0 THEN 1 % m ELSE (2 * Pow2Mod(s - 1, m)) % m

\* the f64 division dimension / width: the significand is
\* dimension * 2^s / width rounded to the nearest integer, ties to even,
\* with s = MantissaBits - exponent; the result is the signed rounding
\* error in units of 1 / (width * 2^s)
ScaleError(dimension, width) ==
    LET s == MantissaBits - FloorLog2(dimension, width)
        n == (dimension * Pow2Mod(s, 2 * width)) % (2 * width)
        r == n % width
        odd == ((n - r) \div width) % 2 = 1
    IN  IF r = 0 THEN 0
        ELSE IF 2 * r < width \/ (2 * r = width /\ ~odd) THEN 0 - r
        ELSE width - r

\* (dimension as f64) / f64::from(width)
Scale(dimension, width) ==
    [num |-> dimension, den |-> width, err |-> ScaleError(dimension, width)]

\* whether the f64 product (x + 0.5) * scale is the double just below the
\* integer n the rational product equals: scale lies below its quotient and
\* the product's distance (2x + 1) * |err| / (2 * den * 2^s) from n exceeds
\* half the spacing of the doubles below n
ProductBelow(x, scale) ==
    LET num == (2 * x + 1) * scale.num
        den == 2 * scale.den
        n == num \div den
        e == FloorLog2(scale.num, scale.den)
        j == FloorLog2(n, 1)
        b == IF n = 2^j THEN 1 ELSE 0
        k == j - e - b
        lhs == (2 * x + 1) * (0 - scale.err)
    IN  /\ num % den = 0
        /\ scale.err < 0
        /\ IF k >= 0 THEN lhs > scale.den * 2^k ELSE lhs * 2^(0 - k) > scale.den

\* (x.into() + 0.5) * scale
Product(x, scale) ==
    [num |-> (2 * x + 1) * scale.num, den |-> 2 * scale.den,
     below |-> ProductBelow(x, scale)]

\* product - 0.5 (den is even)
MinusHalf(f) == [num |-> f.num - f.den \div 2, den |-> f.den, below |-> f.below]

\* round to the nearest integer, ties to the even one
round_ties_even(f) ==
    LET lower == f.num \div f.den
        twice == 2 * (f.num - lower * f.den)
    IN  IF twice < f.den \/ (twice = f.den /\ (lower % 2 = 0 \/ f.below))
        THEN lower ELSE lower + 1

\* f64::round: to the nearest integer, ties away from zero; a double just
\* below a tie is not a tie and goes down
round(f) ==
    IF f.below THEN (2 * f.num + f.den - 1) \div (2 * f.den)
    ELSE IF f.num >= 0 THEN (2 * f.num + f.den) \div (2 * f.den)
    ELSE 0 - ((f.den - 2 * f.num) \div (2 * f.den))

\* `as usize` of a whole f64: negative values saturate to 0
as_usize(k) == IF k < 0 THEN 0 ELSE k

\* image_pixel_to_raster_pixel
image_pixel_to_raster_pixel(x, y, scale_x, scale_y) ==
    LET cell_x == round(MinusHalf(Product(x, scale_x)))
        cell_y == round(MinusHalf(Product(y, scale_y)))
    IN  <<as_usize(cell_x), as_usize(cell_y)>>

\* Raster2D::pixel_value_at_grid_index: an error outside the raster
pixel_value_at_grid_index(r, cell) ==
    IF cell[1] < r.dimension[1] /\ cell[2] < r.dimension[2] THEN "Ok"
    ELSE "GridIndexOutOfBounds"

\* the closure of RgbaImage::from_fn: the cell looked up for image pixel
\* (x, y) and the colour it gets
Pixel(r, x, y, scale_x, scale_y) ==
    LET cell == image_pixel_to_raster_pixel(x, y, scale_x, scale_y)
    IN  [cell |-> cell,
         color |-> IF pixel_value_at_grid_index(r, cell) = "Ok"
                   THEN "color_mapper" ELSE "no_data_color"]

\* to_png: pixels[y + 1][x + 1] is image pixel (x, y)
to_png(r, width, height, encodes) ==
    LET scale_x == Scale(r.dimension[1], width)
        scale_y == Scale(r.dimension[2], height)
        pixels == [y \in 1..height |->
                      [x \in 1..width |-> Pixel(r, x - 1, y - 1, scale_x, scale_y)]]
    IN  IF encodes THEN [tag |-> "Ok", pixels |-> pixels]
        ELSE [tag |-> "Colorizer", pixels |-> pixels]

NoPng == [tag |-> "none", pixels |-> <<>>]

InitPngPart ==
    /\ raster \in [dimension : (1..MaxDimension) \X (1..MaxDimension)]
    /\ image \in [width : 1..MaxWidth, height : 1..MaxHeight]
    /\ png = NoPng

ToPng ==
    /\ png = NoPng
    /\ \E encodes \in BOOLEAN :
          png' = to_png(raster, image.width, image.height, encodes)
    /\ UNCHANGED <<raster, image>>

----------------------------------------------------------------------------
(* The specifications.                                                     *)

IdleWcs ==
    /\ request = GetCoverage("1.1.1", "EPSG:4326", NoGridOrigin, NoSpatialReference)
    /\ workflow = [spatial_reference |-> NoSpatialReference, data_type |-> "U8",
                   tile_limit |-> 1, fail_at |-> "none"]
    /\ coverage = NoCoverage

IdlePng ==
    /\ raster = [dimension |-> <<1, 1>>]
    /\ image = [width |-> 1, height |-> 1]
    /\ png = NoPng

IdleGrid ==
    /\ grid = NoDataGridNew(GridShape2D(<<0, 0>>), 0)
    /\ gridResult = GridCall("new", NoIdx, GridNone("grid"))
    /\ dense = GridFrom(grid)

IdleConv ==
    /\ conv = [grid |-> NoDataGridNew(GridShape2D(<<0, 0>>), 0), dtype |-> "u8"]
    /\ convResult = NotConverted

IdleJoin ==
    /\ op = [params |-> [names |-> <<>>], vector_sources |-> <<>>,
             raster_sources |-> <<>>]
    /\ joinResult = NotInitialized
    /\ joinAgain = NotInitialized

IdleCatalog ==
    /\ query = TimeInterval(0, 0)
    /\ catalog = [matched |-> 0, limit |-> 1]
    /\ time_range = NoTimeRange
    /\ cpc = "idle"
    /\ page = 1
    /\ num_pages = 0
    /\ requests = <<>>
    /\ features = <<>>
    /\ kinds = {}
    /\ steps = 0
    /\ loadingInfo = NoLoadingInfo

InitGrid == InitGridPart /\ IdleConv /\ IdleJoin /\ IdleCatalog /\ IdleWcs /\ IdlePng

NextGrid ==
    \/ GetAtGridIndex /\ UNCHANGED <<convVars, joinVars, catalogVars, wcsVars, pngVars>>
    \/ GetAtGridIndexUnchecked /\ UNCHANGED <<convVars, joinVars, catalogVars, wcsVars, pngVars>>
    \/ ShiftByOffset /\ UNCHANGED <<convVars, joinVars, catalogVars, wcsVars, pngVars>>
    \/ SetGridBounds /\ UNCHANGED <<convVars, joinVars, catalogVars, wcsVars, pngVars>>
    \/ IntoGrid /\ UNCHANGED <<convVars, joinVars, catalogVars, wcsVars, pngVars>>

SpecGrid == InitGrid /\ [][NextGrid]_vars

InitConv == IdleGrid /\ InitConvPart /\ IdleJoin /\ IdleCatalog /\ IdleWcs /\ IdlePng

NextConv == ConvertDtype /\ UNCHANGED <<gridVars, joinVars, catalogVars, wcsVars, pngVars>>

SpecConv == InitConv /\ [][NextConv]_vars

InitJoin == IdleGrid /\ IdleConv /\ InitJoinPart /\ IdleCatalog /\ IdleWcs /\ IdlePng

NextJoin ==
    \/ Initialize /\ UNCHANGED <<gridVars, convVars, catalogVars, wcsVars, pngVars>>
    \/ InitializeAgain /\ UNCHANGED <<gridVars, convVars, catalogVars, wcsVars, pngVars>>

SpecJoin == InitJoin /\ [][NextJoin]_vars

InitCatalog == IdleGrid /\ IdleConv /\ IdleJoin /\ InitCatalogPart(AssetKinds) /\ IdleWcs
                   /\ IdlePng

NextCatalog ==
    \/ RequestParams /\ UNCHANGED <<gridVars, convVars, joinVars, wcsVars, pngVars>>
    \/ Request /\ UNCHANGED <<gridVars, convVars, joinVars, wcsVars, pngVars>>
    \/ Respond /\ UNCHANGED <<gridVars, convVars, joinVars, wcsVars, pngVars>>
    \/ RespondError /\ UNCHANGED <<gridVars, convVars, joinVars, wcsVars, pngVars>>

SpecCatalog == InitCatalog /\ [][NextCatalog]_vars

\* the same program on a catalog with malformed entries
InitCatalogMalformed == IdleGrid /\ IdleConv /\ IdleJoin /\ InitCatalogPart(MalformedAssetKinds)
                            /\ IdleWcs /\ IdlePng

SpecCatalogMalformed == InitCatalogMalformed /\ [][NextCatalog]_vars

\* the same program on a catalog whose index changes between two pages
InitCatalogLive == IdleGrid /\ IdleConv /\ IdleJoin /\ InitCatalogPart(LiveAssetKinds)
                       /\ IdleWcs /\ IdlePng

NextCatalogLive ==
    \/ RequestParams /\ UNCHANGED <<gridVars, convVars, joinVars, wcsVars, pngVars>>
    \/ Request /\ UNCHANGED <<gridVars, convVars, joinVars, wcsVars, pngVars>>
    \/ Respond /\ UNCHANGED <<gridVars, convVars, joinVars, wcsVars, pngVars>>
    \/ RespondError /\ UNCHANGED <<gridVars, convVars, joinVars, wcsVars, pngVars>>
    \/ CatalogChanges /\ UNCHANGED <<gridVars, convVars, joinVars, wcsVars, pngVars>>

SpecCatalogLive == InitCatalogLive /\ [][NextCatalogLive]_vars

InitWcs == IdleGrid /\ IdleConv /\ IdleJoin /\ IdleCatalog /\ InitWcsPart /\ IdlePng

NextWcs ==
    GetCoverageRequest /\ UNCHANGED <<gridVars, convVars, joinVars, catalogVars, pngVars>>

SpecWcs == InitWcs /\ [][NextWcs]_vars

InitPng == IdleGrid /\ IdleConv /\ IdleJoin /\ IdleCatalog /\ IdleWcs /\ InitPngPart

NextPng == ToPng /\ UNCHANGED <<gridVars, convVars, joinVars, catalogVars, wcsVars>>

SpecPng == InitPng /\ [][NextPng]_vars

----------------------------------------------------------------------------
(* Properties of the no-data grid (checked under SpecGrid).                *)

\* C1: get_at_grid_index(idx) on a NoDataGrid with shape S and no-data value v
\* returns Ok(v) if S.min_index <= idx <= S.max_index on every axis, and
\* otherwise fails with GridIndexOutOfBounds carrying idx, S's min_index and
\* S's max_index.
C1_GetAtGridIndex ==
    gridResult.op = "get_at_grid_index" =>
        LET idx == gridResult.arg
            lo == grid.shape.min_index
            hi == grid.shape.max_index
        IN IF lo[1] <= idx[1] /\ idx[1] <= hi[1] /\ lo[2] <= idx[2] /\ idx[2] <= hi[2]
           THEN /\ gridResult.ret.tag = "Ok"
                /\ gridResult.ret.value = grid.no_data_value
           ELSE /\ gridResult.ret.tag = "GridIndexOutOfBounds"
                /\ gridResult.ret.index = idx
                /\ gridResult.ret.min_index = lo
                /\ gridResult.ret.max_index = hi

\* an out-of-bounds access on a grid whose bounds were moved away from the origin
C1_Witness ==
    /\ gridResult.op = "get_at_grid_index"
    /\ gridResult.ret.tag = "GridIndexOutOfBounds"
    /\ grid.shape.min_index # <<0, 0>>
    /\ grid.shape.min_index # grid.shape.max_index
    /\ grid.no_data_value = 42

\* C14: converting a NoDataGrid(S, v) into a dense Grid yields a grid with the
\* same shape S and number_of_elements cells, in which every cell equals v and
\* whose no-data sentinel is Some(v).
C14_IntoGrid ==
    gridResult.op = "into" =>
        LET lo == grid.shape.min_index
            hi == grid.shape.max_index
        IN /\ dense.tag = "Ok"
           /\ dense.shape = grid.shape
           /\ Len(dense.data) = (hi[1] - lo[1] + 1) * (hi[2] - lo[2] + 1)
           /\ \A i \in 1..Len(dense.data) : dense.data[i] = grid.no_data_value
           /\ dense.no_data_value = [some |-> TRUE, value |-> grid.no_data_value]

\* a shifted 2 x 2 grid of 42s is converted
C14_Witness ==
    /\ gridResult.op = "into"
    /\ grid.shape = [min_index |-> <<-1, 0>>, max_index |-> <<0, 1>>]
    /\ grid.no_data_value = 42
    /\ dense.data = <<42, 42, 42, 42>>

\* C15: a NoDataGrid and the dense grid obtained from it are indistinguishable:
\* after the same sequence of shift_by_offset / set_grid_bounds calls the
\* dense grid exists, and axis_size, number_of_elements, min_index, max_index,
\* no_data_value and get_at_grid_index (value or out-of-bounds error) agree
\* for every index.
C15_Indistinguishable ==
    /\ dense.tag = "Ok"
    /\ axis_size(dense.shape) = axis_size(grid.shape)
    /\ number_of_elements(dense.shape) = number_of_elements(grid.shape)
    /\ min_index(dense.shape) = min_index(grid.shape)
    /\ max_index(dense.shape) = max_index(grid.shape)
    /\ dense.no_data_value = Some(grid.no_data_value)
    /\ \A idx \in GridIdx2D :
          DenseGetAtGridIndex(dense, idx) = get_at_grid_index(grid, idx)

\* C17: shift_by_offset(offset) returns a NoDataGrid whose min_index and
\* max_index are the original ones plus offset, with axis sizes,
\* number_of_elements and no_data_value unchanged; an index idx is in bounds
\* of the original iff idx + offset is in bounds of the result.
C17_ShiftByOffset ==
    [][gridResult'.op = "shift_by_offset" =>
          LET offset == gridResult'.arg
              lo == grid.shape.min_index
              hi == grid.shape.max_index
              lo2 == grid'.shape.min_index
              hi2 == grid'.shape.max_index
          IN /\ lo2 = <<lo[1] + offset[1], lo[2] + offset[2]>>
             /\ hi2 = <<hi[1] + offset[1], hi[2] + offset[2]>>
             /\ \A d \in 1..2 : hi2[d] - lo2[d] = hi[d] - lo[d]
             /\ number_of_elements(grid'.shape) = number_of_elements(grid.shape)
             /\ grid'.no_data_value = grid.no_data_value
             /\ \A idx \in GridIdx2D :
                   (get_at_grid_index(grid, idx).tag = "Ok")
                       <=> (get_at_grid_index(grid', IdxAdd(idx, offset)).tag = "Ok")
    ]_vars

\* a 1 x 2 grid of 42s has been shifted from the origin by (1, -1)
C17_Witness ==
    /\ gridResult.op = "shift_by_offset"
    /\ gridResult.arg = <<1, -1>>
    /\ grid.shape = [min_index |-> <<1, -1>>, max_index |-> <<1, 0>>]
    /\ grid.no_data_value = 42

\* C18: set_grid_bounds(bounds) fails if the new bounds are degenerate, and
\* otherwise returns a NoDataGrid over exactly the given bounds with the
\* no_data_value unchanged.
C18_SetGridBounds ==
    [][gridResult'.op = "set_grid_bounds" =>
          LET bounds == gridResult'.arg IN
          IF \E d \in 1..2 : bounds.max_index[d] < bounds.min_index[d]
          THEN gridResult'.ret.tag # "grid"
          ELSE /\ gridResult'.ret.tag = "grid"
               /\ grid' = [shape |-> bounds, no_data_value |-> grid.no_data_value]
    ]_vars

\* C22: get_at_grid_index_unchecked never fails and returns the no-data value
\* for every index, including indices outside the grid's bounds.
C22_Unchecked ==
    gridResult.op = "get_at_grid_index_unchecked" =>
        /\ gridResult.ret.tag = "Ok"
        /\ gridResult.ret.value = grid.no_data_value

\* a 1 x 1 grid of 42s at (1, 1) is read at (-1, 0), outside its bounds
C22_Witness ==
    /\ gridResult.op = "get_at_grid_index_unchecked"
    /\ gridResult.arg = <<-1, 0>>
    /\ grid.shape = [min_index |-> <<1, 1>>, max_index |-> <<1, 1>>]
    /\ grid.no_data_value = 42
    /\ gridResult.ret.value = 42

----------------------------------------------------------------------------
(* Properties of NoDataGrid::convert_dtype (checked under SpecConv).       *)

Representable(v, To) == To = "f64" \/ (MinValue(To) <= v /\ v <= MaxValue(To))

----------------------------------------------------------------------------
(* Properties of RasterVectorJoin::initialize (checked under SpecJoin).    *)

Initialized == joinResult # NotInitialized

\* C2: initialize fails whenever raster_sources.len() exceeds
\* MAX_NUMBER_OF_RASTER_INPUTS (8), for every number of names and every vector
\* source.
C2_FailsAboveMaxRasterInputs ==
    (Initialized /\ Len(op.raster_sources) > MAX_NUMBER_OF_RASTER_INPUTS)
        => joinResult.tag # "Ok"

\* C3: initialize fails with InvalidNumberOfVectorInputs, found =
\* vector_sources.len(), whenever vector_sources.len() # 1, whatever the raster
\* sources and names are.
C3_VectorArity ==
    (Initialized /\ Len(op.vector_sources) # 1)
        => /\ joinResult.tag = "InvalidNumberOfVectorInputs"
           /\ joinResult.found = Len(op.vector_sources)

\* two vector sources, with raster sources and names that would be accepted
C3_Witness ==
    /\ joinResult.tag = "InvalidNumberOfVectorInputs"
    /\ Len(op.vector_sources) = 2
    /\ Len(op.raster_sources) = 2
    /\ Len(op.params.names) = 2

\* C4: initialize with exactly one vector source and zero raster sources fails
\* with InvalidNumberOfRasterInputs, found = 0, also when names is empty.
C4_NoRasterSources ==
    (Initialized /\ Len(op.vector_sources) = 1 /\ Len(op.raster_sources) = 0)
        => /\ joinResult.tag = "InvalidNumberOfRasterInputs"
           /\ joinResult.found = 0

\* one vector source, no raster source and no name
C4_Witness ==
    /\ joinResult.tag = "InvalidNumberOfRasterInputs"
    /\ Len(op.vector_sources) = 1
    /\ Len(op.raster_sources) = 0
    /\ Len(op.params.names) = 0

\* C5: initialize with one vector source and 1..8 raster sources fails with
\* InvalidOperatorSpec whenever params.names.len() # raster_sources.len().
C5_NamesLength ==
    (/\ Initialized
     /\ Len(op.vector_sources) = 1
     /\ Len(op.raster_sources) \in 1..MAX_NUMBER_OF_RASTER_INPUTS
     /\ Len(op.params.names) # Len(op.raster_sources))
        => joinResult.tag = "InvalidOperatorSpec"

\* more names than raster sources
C5_Witness ==
    /\ joinResult.tag = "InvalidOperatorSpec"
    /\ Len(op.vector_sources) = 1
    /\ Len(op.raster_sources) = 2
    /\ Len(op.params.names) = 3

ValidArities ==
    /\ Len(op.vector_sources) = 1
    /\ Len(op.raster_sources) \in 1..MAX_NUMBER_OF_RASTER_INPUTS
    /\ Len(op.params.names) = Len(op.raster_sources)

\* C6: with valid arities and a vector source that initializes, initialize fails
\* with InvalidType if the source's result descriptor has data type Data, and
\* passes the type check for MultiPoint, MultiLineString and MultiPolygon: it
\* then succeeds or returns the error of a raster source.
C6_VectorType ==
    (Initialized /\ ValidArities /\ op.vector_sources[1].init # "Error")
        => /\ op.vector_sources[1].init = "Data" => joinResult.tag = "InvalidType"
           /\ op.vector_sources[1].init \in GeometryTypes =>
                 \/ joinResult.tag = "Ok"
                 \/ /\ joinResult.tag = "ChildError"
                    /\ joinResult.child[1] = "raster"

\* an attribute-only vector source is rejected
C6_Witness ==
    /\ joinResult.tag = "InvalidType"
    /\ ValidArities
    /\ op.vector_sources[1].init = "Data"

Children == op.vector_sources \o op.raster_sources

\* C25: initialization is eager and recursive: when it succeeds, the vector
\* source and every raster source have each been initialized exactly once,
\* vector source first, raster sources in their given order; when a child's
\* initialization fails, that child's error is returned, no later raster
\* source is initialized and no initialized operator is produced.
C25_EagerInitialization ==
    (Initialized /\ ValidArities /\ op.vector_sources[1].init # "Data") =>
        LET failing == {k \in 1..Len(Children) : Children[k].init = "Error"} IN
        IF failing = {}
        THEN /\ joinResult.tag = "Ok"
             /\ joinResult.initialized = [k \in 1..Len(Children) |-> Children[k].id]
        ELSE LET first == CHOOSE k \in failing : \A l \in failing : k <= l IN
             /\ joinResult.tag = "ChildError"
             /\ joinResult.child = Children[first].id
             /\ joinResult.initialized = [k \in 1..first |-> Children[k].id]
             /\ joinResult.result_descriptor = "none"

\* the second of three raster sources fails, the third would fail too
C25_Witness ==
    /\ joinResult.tag = "ChildError"
    /\ joinResult.child = <<"raster", 2>>
    /\ joinResult.initialized = <<<<"vector", 1>>, <<"raster", 1>>, <<"raster", 2>>>>
    /\ Len(op.raster_sources) = 3
    /\ op.raster_sources[3].init = "Error"

\* C27: the arity errors carry the expected range and the found count, and
\* the expected range equals the set of accepted counts: exactly 1 for vector
\* sources and 1..=8 for raster sources (a count is inside the reported range
\* iff that check accepts it).
C27_ArityRanges ==
    Initialized =>
        LET counts(range) == {n \in 0..(MaxRasterSources + 1) :
                                 range.start <= n /\ n < range.end}
        IN /\ joinResult.tag = "InvalidNumberOfVectorInputs" =>
                 /\ joinResult.found = Len(op.vector_sources)
                 /\ counts(joinResult.expected) = {1}
           /\ joinResult.tag = "InvalidNumberOfRasterInputs" =>
                 /\ joinResult.found = Len(op.raster_sources)
                 /\ counts(joinResult.expected) = 1..8
           /\ Len(op.vector_sources) # 1
                 <=> joinResult.tag = "InvalidNumberOfVectorInputs"
           /\ Len(op.vector_sources) = 1 =>
                 (Len(op.raster_sources) \notin 1..8
                     <=> joinResult.tag = "InvalidNumberOfRasterInputs")

\* C29: all arity and names checks run before any child is initialized and
\* the vector type check runs before any raster source is initialized: if the
\* vector arity, raster arity or names check fails, no source is initialized;
\* if the vector source's type check fails, no raster source is initialized.
\* When several checks fail, the error reported is that of the first in the
\* order vector arity, raster arity, names length, vector type. (The raster
\* arity check, as written, fails for an empty list only.)
C29_CheckOrder ==
    Initialized =>
        /\ joinResult.tag \in {"InvalidNumberOfVectorInputs",
                                "InvalidNumberOfRasterInputs", "InvalidOperatorSpec"}
              => joinResult.initialized = <<>>
        /\ joinResult.tag = "InvalidType" =>
              \A k \in 1..Len(joinResult.initialized) :
                  joinResult.initialized[k][1] # "raster"
        /\ IF Len(op.vector_sources) # 1
           THEN joinResult.tag = "InvalidNumberOfVectorInputs"
           ELSE IF Len(op.raster_sources) = 0
           THEN joinResult.tag = "InvalidNumberOfRasterInputs"
           ELSE IF Len(op.params.names) # Len(op.raster_sources)
           THEN joinResult.tag = "InvalidOperatorSpec"
           ELSE IF op.vector_sources[1].init = "Data"
           THEN /\ joinResult.tag = "InvalidType"
                /\ joinResult.initialized = <<op.vector_sources[1].id>>
           ELSE joinResult.tag \in {"Ok", "ChildError"}

\* the names do not match and the vector source is attribute-only and a raster
\* source would fail: the names error is reported and nothing is initialized
C29_Witness ==
    /\ joinResult.tag = "InvalidOperatorSpec"
    /\ joinResult.initialized = <<>>
    /\ Len(op.vector_sources) = 1
    /\ op.vector_sources[1].init = "Data"
    /\ Len(op.raster_sources) = 2
    /\ op.raster_sources[1].init = "Error"
    /\ Len(op.params.names) = 3

----------------------------------------------------------------------------
(* Properties of the catalog resolution (checked under SpecCatalog).       *)

Returned == cpc = "done"
ReturnedOk == cpc = "done" /\ loadingInfo.tag = "Ok"

\* the delivered features of the requested zone (UTM32N), as a set
ZoneAssets ==
    {features[i] : i \in {j \in 1..Len(features) : features[j].proj_epsg = UTM32N}}

\* the position at which a feature was delivered
Delivered(a) == CHOOSE i \in 1..Len(features) : features[i] = a

\* the feature a load instruction was made from
AssetOf(part) == CHOOSE a \in {features[i] : i \in 1..Len(features)} : a.id = part.href

DistinctZoneTimes ==
    \A a, b \in ZoneAssets : a # b => a.datetime # b.datetime

Least(S) == CHOOSE x \in S : \A y \in S : x <= y

\* the zone assets that come after `a` by timestamp (by delivery among equals)
After(a) ==
    {b \in ZoneAssets :
        \/ a.datetime < b.datetime
        \/ a.datetime = b.datetime /\ Delivered(a) < Delivered(b)}

\* the validity of a zone asset: up to the next zone asset, one second for the last
ValidityOf(a) ==
    TimeInterval(a.datetime,
                 IF After(a) = {} THEN a.datetime + OneSecond
                 ELSE Least({b.datetime : b \in After(a)}))

Hrefs == {loadingInfo.parts[i].href : i \in 1..Len(loadingInfo.parts)}

\* C7: for zone-filtered assets with timestamps t1 < t2 < ... < tN, the load
\* instruction of asset i < N has the time interval [t_i, t_{i+1}) and that of
\* the last asset [tN, tN + 1 second).
C7_ValidityIntervals ==
    (ReturnedOk /\ DistinctZoneTimes) =>
        \A i \in 1..Len(loadingInfo.parts) :
            LET part == loadingInfo.parts[i]
                a == AssetOf(part)
                later == {b.datetime : b \in {c \in ZoneAssets : c.datetime > a.datetime}}
            IN /\ part.time.start = a.datetime
               /\ part.time.end = IF later = {} THEN a.datetime + OneSecond
                                  ELSE Least(later)

\* three zone assets with distinct timestamps, delivered out of order; the first
\* two by time are loaded with validity up to their successor
C7_Witness ==
    /\ ReturnedOk
    /\ DistinctZoneTimes
    /\ Cardinality(ZoneAssets) = 3
    /\ Len(loadingInfo.parts) = 2
    /\ loadingInfo.parts[1].time = TimeInterval(0, 1)
    /\ loadingInfo.parts[2].time = TimeInterval(1, 2)
    /\ features[1].datetime = 1

\* C8: the load instructions returned are exactly one per zone-filtered asset
\* whose validity interval intersects the query's time interval, none for any
\* other asset, in ascending order of asset timestamp whatever the order of
\* delivery; they are returned whenever each of these assets has the band
\* with a shape.
C8_LoadInstructions ==
    Returned =>
        LET wanted == {a \in ZoneAssets : intersects(ValidityOf(a), query)} IN
        /\ (\A a \in wanted : a.band = "ok") => loadingInfo.tag = "Ok"
        /\ loadingInfo.tag = "Ok" =>
              /\ Hrefs = {a.id : a \in wanted}
              /\ Len(loadingInfo.parts) = Cardinality(wanted)
              /\ \A i, j \in 1..Len(loadingInfo.parts) :
                    i < j => AssetOf(loadingInfo.parts[i]).datetime
                                <= AssetOf(loadingInfo.parts[j]).datetime

\* zone assets delivered in descending time order, one of them outside the query
C8_Witness ==
    /\ ReturnedOk
    /\ Cardinality(ZoneAssets) = 3
    /\ Len(loadingInfo.parts) = 2
    /\ features[1].datetime > features[2].datetime
    /\ features[2].datetime > features[3].datetime

\* C9: only assets whose proj_epsg equals the zone's EPSG code are kept: every
\* load instruction is made from such an asset and ends at the timestamp of
\* such an asset or one second after its start, and the result is the one
\* create_loading_info computes from the zone's assets alone.
C9_ZoneFilter ==
    Returned =>
        /\ \A i \in 1..Len(loadingInfo.parts) :
              LET part == loadingInfo.parts[i] IN
              /\ AssetOf(part).proj_epsg = zone.epsg
              /\ \/ part.time.end = part.time.start + OneSecond
                 \/ \E b \in ZoneAssets : b.datetime = part.time.end
        /\ loadingInfo =
              LoadingInfoOf(SelectSeq(features, LAMBDA f : f.proj_epsg = UTM32N), query)

\* an asset of the other zone and one without proj_epsg lie between two loaded
\* assets of the zone
C9_Witness ==
    /\ ReturnedOk
    /\ Len(loadingInfo.parts) = 1
    /\ loadingInfo.parts[1].time = TimeInterval(0, 2)
    /\ \E i, j \in 1..Len(features) :
          /\ features[i].proj_epsg = UTM36S /\ features[i].datetime = 1
          /\ features[j].proj_epsg = NoEpsg

\* C11: time_range_request maps a query time interval [start, end) to the
\* catalog request range (start - 1 minute, end): the start is shifted back by
\* exactly one minute and the end is unchanged; it fails with NoDateTimeValid
\* if start or end has no UTC date-time representation.
C11_TimeRangeRequest ==
    cpc \notin {"idle", "params"} =>
        LET without == {t \in {query.start, query.end} :
                           t < 0 - MaxDateTime \/ t > MaxDateTime}
        IN IF without = {}
           THEN /\ time_range.tag = "Ok"
                /\ time_range.t_start = query.start - OneMinute
                /\ time_range.t_end = query.end
           ELSE /\ time_range.tag = "NoDateTimeValid"
                /\ time_range.time_instance \in without
                /\ cpc = "failed"
                /\ loadingInfo.tag = "NoDateTimeValid"

\* the query [1, 2) is sent as (1 - one minute, 2)
C11_Witness ==
    /\ cpc = "done"
    /\ query = TimeInterval(1, 2)
    /\ time_range.tag = "Ok"
    /\ time_range.t_start = 1 - OneMinute
    /\ time_range.t_end = 2

Greatest(S) == CHOOSE x \in S : \A y \in S : y <= x

PagesNeeded ==
    CHOOSE n \in 0..catalog.matched :
        /\ n * catalog.limit >= catalog.matched
        /\ n = 0 \/ (n - 1) * catalog.limit < catalog.matched

LastPage == IF PagesNeeded < 1 THEN 1 ELSE PagesNeeded

\* what load_all_features still has to do: two steps (request, response) for
\* each page not yet asked for, one for a response awaited
Remaining ==
    IF cpc = "request" THEN 2 * (LastPage - Len(requests))
    ELSE IF cpc = "await" THEN 2 * (LastPage - Len(requests)) + 1
    ELSE 0

\* C10: load_all_features requests page 1, then pages 2..=ceil(matched/limit),
\* each once and in ascending order, then returns all pages' features in page
\* order; it terminates: a request and a response per page, 2 * max(1,
\* ceil(matched/limit)) steps in all.
C10_Pagination ==
    /\ Len(requests) <= LastPage
    /\ \A i \in 1..Len(requests) : requests[i] = i
    /\ Remaining >= 0
    /\ cpc \in {"request", "await"} => steps + Remaining = 2 * LastPage
    /\ Returned =>
          /\ steps = 2 * LastPage
          /\ Len(requests) = LastPage
          /\ Len(features) = catalog.matched
          /\ \A i \in 1..Len(features) : features[i].id = i

\* three matching assets on two pages of two
C10_Witness ==
    /\ Returned
    /\ catalog.matched = 3
    /\ catalog.limit = 2
    /\ requests = <<1, 2>>
    /\ steps = 4
    /\ Len(features) = 3

\* the errors of load_collection: the request (send, text) or the JSON parse
PageErrors == {"Reqwest", "StacJsonResponse"}

\* C21: if a catalog page request fails (network or JSON parse),
\* load_all_features stops with that error: nothing is requested afterwards,
\* no page is requested more than once (no retry), no partial feature list is
\* turned into load instructions, and create_loading_info reports the error;
\* a response awaited is either a delivered page or such a failure.
C21_FailFast ==
    [][/\ cpc # "failed"
       /\ requests' # requests => requests' = Append(requests, Len(requests) + 1)
       /\ loadingInfo'.tag \in PageErrors =>
             /\ cpc = "await"
             /\ cpc' = "failed"
             /\ Len(requests) = page
             /\ requests' = requests
             /\ loadingInfo'.parts = <<>>
       /\ cpc = "await" =>
             \/ cpc' = "failed" /\ loadingInfo'.tag \in PageErrors
             \/ /\ cpc' \in {"request", "done"}
                /\ loadingInfo'.tag \notin PageErrors
                /\ Len(features') = Len(features) + PageSize(page)]_vars

\* the second of three pages fails to parse: page 1's asset is dropped, page 3
\* is never asked for
C21_Witness ==
    /\ cpc = "failed"
    /\ loadingInfo = LoadingInfo("StacJsonResponse", <<>>)
    /\ catalog.matched = 3
    /\ catalog.limit = 1
    /\ requests = <<1, 2>>
    /\ Len(features) = 1
    /\ steps = 4

\* a step in which load_collection delivers a page
PageReceived == cpc = "await" /\ cpc' \in {"request", "done"}

\* pagination is sequential: a page is requested only when every earlier
\* request has been answered, and it is the page after the last one requested
Sequential ==
    requests' # requests =>
        /\ cpc = "request"
        /\ steps = 2 * Len(requests)
        /\ requests' = Append(requests, Len(requests) + 1)

\* C23 (as stated): after page k is received, page k+1 is requested if and only
\* if the match count and page size reported by page k indicate that more
\* assets remain (k * limit < matched), and page k+1 is never requested before
\* page k's response has arrived.
C23_EachPageDecides ==
    [][/\ PageReceived => (cpc' = "request" <=> page * catalog.limit < catalog.matched)
       /\ Sequential]_vars

\* C23 (amended): the number of pages is fixed when page 1 is received, as
\* ceil(matched / limit) of the context page 1 reports; after page k is
\* received, page k+1 is requested if and only if k is below that number,
\* whatever page k itself reports; and page k+1 is never requested before page
\* k's response has arrived.
C23_FirstPageDecides ==
    [][/\ PageReceived =>
             /\ page = 1 =>
                   /\ num_pages' * catalog.limit >= catalog.matched
                   /\ num_pages' = 0 \/ (num_pages' - 1) * catalog.limit < catalog.matched
             /\ page > 1 => num_pages' = num_pages
             /\ cpc' = "request" <=> page < num_pages'
       /\ Sequential]_vars

\* page 1 reported 2 assets on pages of 1; page 2 reports 3 and no third page
\* is requested
C23_Witness ==
    /\ cpc = "done"
    /\ num_pages = 2
    /\ catalog = [matched |-> 3, limit |-> 1]
    /\ requests = <<1, 2>>
    /\ steps = 4

\* the zone assets whose validity intersects the query's time interval
Wanted == {a \in ZoneAssets : intersects(ValidityOf(a), query)}

\* C24 (as stated): create_loading_info fails with StacNoSuchBand (and returns
\* no load instruction at all) if and only if at least one zone-filtered asset
\* whose validity interval intersects the query time lacks the requested band;
\* an asset that lacks the band but does not intersect the query time does not
\* cause a failure.
C24_NoSuchBand ==
    Returned =>
        /\ loadingInfo.tag = "StacNoSuchBand" <=> (\E a \in Wanted : a.band = "missing")
        /\ loadingInfo.tag = "StacNoSuchBand" => loadingInfo.parts = <<>>

\* C24 (amended): create_loading_info fails with StacNoSuchBand (and returns no
\* load instruction at all) if and only if a zone-filtered asset whose validity
\* interval intersects the query time lacks the requested band and every
\* intersecting asset before it, in the sorted order, could be turned into an
\* instruction; an asset that lacks the band but does not intersect the query
\* time does not cause a failure.
C24_FirstNoSuchBand ==
    Returned =>
        /\ loadingInfo.tag = "StacNoSuchBand" <=>
              \E a \in Wanted :
                  /\ a.band = "missing"
                  /\ \A b \in Wanted : a \in After(b) => b.band = "ok"
        /\ loadingInfo.tag = "StacNoSuchBand" => loadingInfo.parts = <<>>
        /\ (\A a \in Wanted : a.band = "ok") => loadingInfo.tag = "Ok"

\* three zone assets: the first lacks the band within the query time, the
\* second has no proj:shape, the third lacks the band after the query time
C24_Witness ==
    /\ Returned
    /\ loadingInfo = LoadingInfo("StacNoSuchBand", <<>>)
    /\ Cardinality(ZoneAssets) = 3
    /\ DistinctZoneTimes
    /\ \E a \in Wanted : a.band = "missing" /\ a.datetime = 0
    /\ \E a \in Wanted : a.band = "no_proj_shape" /\ a.datetime = 1
    /\ \E a \in ZoneAssets \ Wanted : a.band = "missing" /\ a.datetime = 2

\* C30: create_loading_info is total on degenerate catalogs: with zero
\* zone-filtered assets it returns an empty instruction list without error;
\* with assets sharing one timestamp the earlier of them (in catalog order)
\* gets the empty-length interval [t, t], the sort keeps their catalog order,
\* every produced interval satisfies start <= end, and no interval is refused
\* for ending before its start.
C30_DegenerateCatalogs ==
    Returned =>
        /\ loadingInfo.tag \in {"Ok", "StacNoSuchBand"}
        /\ ZoneAssets = {} => loadingInfo = LoadingInfo("Ok", <<>>)
        /\ \A i \in 1..Len(loadingInfo.parts) :
              LET part == loadingInfo.parts[i]
                  a == AssetOf(part)
              IN /\ part.time.start <= part.time.end
                 /\ part.time.start = a.datetime
                 /\ (\E b \in ZoneAssets : /\ b.datetime = a.datetime
                                           /\ Delivered(a) < Delivered(b))
                       => part.time = TimeInterval(a.datetime, a.datetime)
        /\ \A i, j \in 1..Len(loadingInfo.parts) :
              LET a == AssetOf(loadingInfo.parts[i])
                  b == AssetOf(loadingInfo.parts[j])
              IN (i < j /\ a.datetime = b.datetime) => Delivered(a) < Delivered(b)

\* two zone assets of timestamp 1 queried at the instant 1: both are loaded in
\* catalog order, the first with the interval [1, 1]
C30_Witness ==
    /\ ReturnedOk
    /\ query = TimeInterval(1, 1)
    /\ Cardinality(ZoneAssets) = 2
    /\ \A a \in ZoneAssets : a.datetime = 1
    /\ Len(loadingInfo.parts) = 2
    /\ loadingInfo.parts[1].time = TimeInterval(1, 1)
    /\ loadingInfo.parts[2].time = TimeInterval(1, 1 + OneSecond)
    /\ Delivered(AssetOf(loadingInfo.parts[1])) < Delivered(AssetOf(loadingInfo.parts[2]))

----------------------------------------------------------------------------
(* Properties of get_coverage (checked under SpecWcs).                     *)

Answered == coverage # NoCoverage

\* the position of a step among the steps taken, 0 if it was not taken
StepAt(step) ==
    IF \E i \in 1..Len(coverage.effects) : coverage.effects[i] = step
    THEN CHOOSE i \in 1..Len(coverage.effects) : coverage.effects[i] = step
    ELSE 0

\* C12: get_coverage rejects the request before loading the workflow or
\* initializing any operator when (a) an explicit grid origin is given and
\* differs from the request partition's upper-left corner
\* (WcsGridOriginMustEqualBoundingboxUpperLeft), or (b) the bounding box
\* carries its own CRS and it differs from gridbasecrs
\* (WcsBoundingboxCrsMustEqualGridBaseCrs); when the optional value is absent
\* the corresponding check is skipped. (A request that fails the version check
\* or has no spatial partition is rejected with that error before either.)
C12_EarlyRejection ==
    Answered =>
        LET a == /\ request.gridorigin.some
                 /\ request.gridorigin.value # request.upper_left
            b == /\ request.boundingbox.spatial_reference.some
                 /\ request.boundingbox.spatial_reference.value # request.gridbasecrs
            checked == /\ request.version \in {"1.1.0", "1.1.1"}
                       /\ workflow.fail_at # "spatial_partition"
        IN /\ (a \/ b) => (coverage.tag # "Ok" /\ coverage.effects = <<>>)
           /\ (checked /\ a) =>
                 coverage.tag = "WcsGridOriginMustEqualBoundingboxUpperLeft"
           /\ (checked /\ ~a /\ b) =>
                 coverage.tag = "WcsBoundingboxCrsMustEqualGridBaseCrs"
           /\ ~a => coverage.tag # "WcsGridOriginMustEqualBoundingboxUpperLeft"
           /\ ~b => coverage.tag # "WcsBoundingboxCrsMustEqualGridBaseCrs"

\* a matching grid origin, a bounding box CRS other than gridbasecrs
C12_Witness ==
    /\ coverage.tag = "WcsBoundingboxCrsMustEqualGridBaseCrs"
    /\ coverage.effects = <<>>
    /\ request.gridorigin.some
    /\ request.gridorigin.value = request.upper_left
    /\ request.gridbasecrs = "EPSG:4326"
    /\ workflow.fail_at = "load"

\* C13: the query processor is taken from the originally initialized operator
\* when gridbasecrs equals the workflow's CRS, and from a Reprojection
\* operator that wraps the workflow operator with target CRS = gridbasecrs if
\* and only if the two differ; the decision is made once, before the
\* processor is created, and a workflow without a CRS fails with
\* InvalidSpatialReference.
C13_Reprojection ==
    (Answered /\ StepAt("initialize") > 0 /\ workflow.fail_at # "initialize") =>
        IF ~workflow.spatial_reference.some
        THEN /\ coverage.tag = "InvalidSpatialReference"
             /\ StepAt("query_processor") = 0
        ELSE LET differ == request.gridbasecrs # workflow.spatial_reference.value IN
             /\ StepAt("initialize_reprojection") > 0 <=> differ
             /\ Cardinality({i \in 1..Len(coverage.effects) :
                                 coverage.effects[i] = "initialize_reprojection"}) <= 1
             /\ StepAt("query_processor") > 0 =>
                   /\ StepAt("initialize_reprojection") < StepAt("query_processor")
                   /\ coverage.initialized =
                         IF differ
                         THEN [operator |-> "Reprojection",
                               target_spatial_reference |-> request.gridbasecrs]
                         ELSE [operator |-> "workflow",
                               target_spatial_reference |-> "none"]

\* a workflow in EPSG:4326 requested in EPSG:32632 is answered through a
\* Reprojection
C13_Witness ==
    /\ coverage.tag = "Ok"
    /\ request.gridbasecrs = "EPSG:32632"
    /\ workflow.spatial_reference = Some("EPSG:4326")
    /\ coverage.initialized.operator = "Reprojection"
    /\ coverage.effects =
          <<"load", "initialize", "initialize_reprojection", "query_processor", "geotiff">>

\* get_coverage has reached `match processor`
Dispatched ==
    /\ Answered
    /\ StepAt("query_processor") > 0
    /\ workflow.fail_at \notin {"query_processor", "spatial_resolution", "query_context"}

\* the encoder was called with the processor and Some(tile_limit) of the
\* configuration
EncoderCalled ==
    /\ coverage.encoded = [data_type |-> workflow.data_type,
                           tile_limit |-> Some(workflow.tile_limit)]
    /\ StepAt("geotiff") > 0
    /\ coverage.tag \in {"Ok", "GeoTiff", "Http"}

\* C26 (as stated): get_coverage hands the processor to the GeoTIFF encoder for
\* every pixel type of the supported set (8/16/32-bit signed and unsigned
\* integers, 32/64-bit floats), each time with the configured tile limit, and
\* fails with RasterDataTypeNotSupportByGdal only for processor variants
\* outside that set.
C26_SupportedSet ==
    (Dispatched /\ workflow.fail_at # "config") =>
        LET supported == {"U8", "I8", "U16", "I16", "U32", "I32", "F32", "F64"} IN
        /\ workflow.data_type \in supported => EncoderCalled
        /\ coverage.tag = "RasterDataTypeNotSupportByGdal" =>
              workflow.data_type \notin supported

\* C26 (amended): get_coverage hands the processor to the GeoTIFF encoder for
\* the pixel types U8, U16, U32, I16, I32, F32 and F64, each time with the
\* configured tile limit (and fails before the encoder is called when the
\* configuration cannot be read); for every other processor variant (I8, U64,
\* I64) it fails with RasterDataTypeNotSupportByGdal without reading the
\* configuration or calling the encoder.
C26_GeoTiffTypes ==
    Dispatched =>
        IF workflow.data_type \in {"U8", "U16", "U32", "I16", "I32", "F32", "F64"}
        THEN IF workflow.fail_at = "config"
             THEN coverage.tag = "Config" /\ coverage.encoded = NotEncoded
             ELSE EncoderCalled
        ELSE /\ coverage.tag = "RasterDataTypeNotSupportByGdal"
             /\ coverage.encoded = NotEncoded
             /\ StepAt("geotiff") = 0

\* a workflow of 8-bit signed pixels: the query processor is made, the encoder
\* is not called
C26_Witness ==
    /\ coverage.tag = "RasterDataTypeNotSupportByGdal"
    /\ workflow.data_type = "I8"
    /\ workflow.fail_at = "none"
    /\ coverage.effects = <<"load", "initialize", "query_processor">>
    /\ coverage.encoded = NotEncoded

----------------------------------------------------------------------------
(* Properties of to_png (checked under SpecPng).                           *)

Rendered == png # NoPng

\* floor((2x + 1) * D / (2W)): the cell that holds the centre of image
\* pixel x, the upper one when the centre lies on a cell boundary
FloorCell(x, D, W) == ((2 * x + 1) * D) \div (2 * W)

\* the centre of image pixel x lies on the boundary of two cells
OnBoundary(x, D, W) == ((2 * x + 1) * D) % (2 * W) = 0

\* the cell of image pixel (x, y) on axis a
CellOf(x, y, a) == png.pixels[y + 1][x + 1].cell[a]

\* what every rendering satisfies: cells within the raster, non-decreasing
\* along both image axes, no pixel with the no-data colour of a failed lookup
InRangeAndMonotone ==
    \A x \in 0..(image.width - 1), y \in 0..(image.height - 1) :
        /\ CellOf(x, y, 1) \in 0..(raster.dimension[1] - 1)
        /\ CellOf(x, y, 2) \in 0..(raster.dimension[2] - 1)
        /\ x > 0 => CellOf(x - 1, y, 1) <= CellOf(x, y, 1)
        /\ y > 0 => CellOf(x, y - 1, 2) <= CellOf(x, y, 2)
        /\ png.pixels[y + 1][x + 1].color = "color_mapper"

\* C28 (as stated): for raster dimension D >= 1 and image size W >= 1, image
\* coordinate x in 0..W-1 maps to cell floor((2x + 1) * D / (2W)) on either
\* axis; the cell is non-decreasing in x, lies in 0..D-1, and no pixel gets
\* the no-data colour because of an out-of-range cell.
C28_NearestNeighbour ==
    Rendered =>
        /\ \A x \in 0..(image.width - 1), y \in 0..(image.height - 1) :
              /\ CellOf(x, y, 1) = FloorCell(x, raster.dimension[1], image.width)
              /\ CellOf(x, y, 2) = FloorCell(y, raster.dimension[2], image.height)
        /\ InRangeAndMonotone

\* C28 (amended): the cell is floor((2x + 1) * D / (2W)) wherever the pixel
\* centre lies inside a cell, and wherever W divides D; where the centre lies
\* on the boundary of two cells it is that cell or the one below it, as the
\* f64 rounding of D / W decides.  The cell is non-decreasing in x, lies in
\* 0..D-1, and no pixel gets the no-data colour because of an out-of-range
\* cell.
C28_NearestNeighbourF64 ==
    Rendered =>
        /\ \A x \in 0..(image.width - 1), y \in 0..(image.height - 1) :
              \A a \in 1..2 :
                 LET c == IF a = 1 THEN x ELSE y
                     D == raster.dimension[a]
                     W == IF a = 1 THEN image.width ELSE image.height
                 IN  /\ ~OnBoundary(c, D, W) \/ D % W = 0
                           => CellOf(x, y, a) = FloorCell(c, D, W)
                     /\ CellOf(x, y, a) \in {FloorCell(c, D, W) - 1, FloorCell(c, D, W)}
        /\ InRangeAndMonotone

\* a 2-cell axis rendered to 49 pixels: the middle pixel 24, whose centre is
\* the boundary of the two cells, shows cell 0
C28_Witness ==
    /\ png.tag = "Ok"
    /\ raster.dimension[1] = 2
    /\ image.width = 49
    /\ OnBoundary(24, 2, 49)
    /\ CellOf(24, 0, 1) = 0
    /\ CellOf(25, 0, 1) = 1

====
